---- MODULE Spec2Model ----
(***************************************************************************)
(* Conway's Game of Life on a toroidal grid (davidgauch/life-rs,           *)
(* src/main.rs): GameState::new, EventHandler::update (rate limiter,       *)
(* row-parallel generation pass, buffer swap) and EventHandler::draw       *)
(* (reinterpretation of the grid as an RGBA byte buffer).                  *)
(*                                                                         *)
(* The grid dimensions are compile-time constants of the program           *)
(* (960 x 540).  The model carries them as the never-changing variables    *)
(* GRID_WIDTH and GRID_HEIGHT, so that one module covers a family of small *)
(* builds of the same program.                                             *)
(***************************************************************************)
EXTENDS Integers, Sequences, FiniteSets, TLC

(* ------------------------------ bounds --------------------------------- *)
MaxWidth == 3
MaxHeight == 3
MaxCells == 9
MaxSteps == 3
MaxClock == 123
BlinkerSize == 7

(* ------------------------ program constants ---------------------------- *)
u8_MAX == 255
u8_MIN == 0
COLOR_BYTES == 4
WHITE == <<u8_MAX, u8_MAX, u8_MAX, u8_MAX>>
\* BLACK with every byte at its minimum, the alpha byte too.
BLACK_Transparent == <<u8_MIN, u8_MIN, u8_MIN, u8_MIN>>

BLACK == <<u8_MIN, u8_MIN, u8_MIN, u8_MAX>>
UPDATES_PER_SECOND == 24
MILLIS_PER_UPDATE == 1000 \div UPDATES_PER_SECOND

VARIABLES
    GRID_WIDTH,    \* const GRID_WIDTH  (fixed for the life of the process)
    GRID_HEIGHT,   \* const GRID_HEIGHT (fixed for the life of the process)
    curr,          \* GameState.curr: row -> column -> [u8; 4], indices from 0
    next,          \* GameState.next
    last_update,   \* GameState.last_update, in milliseconds
    needs_redraw,  \* GameState.needs_redraw
    clock,         \* the monotonic clock behind Instant::now(), milliseconds
    pc,            \* "idle": between handler calls; "rows": inside the pass
    done,          \* rows of `next` whose closure has run in this pass
    now,           \* the Instant::now() read by the rate-limit test, as held
                   \* by the call of update that last passed the test
    image,         \* the byte buffer handed to Image::from_rgba8 by the last
                   \* drawing call, <<>> before the first
    history,       \* history: <<generation 0, generation 1, ...>> as `curr`
                   \* held them, one entry appended per buffer swap
    frames         \* history: for each buffer produced, the number of swaps
                   \* that had been performed when it was produced

vars == <<GRID_WIDTH, GRID_HEIGHT, curr, next, last_update, needs_redraw,
          clock, pc, done, now, image, history, frames>>

(* ------------------------------ helpers -------------------------------- *)
Rows == 0 .. GRID_HEIGHT - 1
Cols == 0 .. GRID_WIDTH - 1

\* The grids a build of width w and height h can hold after GameState::new.
Boards(w, h) == [0 .. h - 1 -> [0 .. w - 1 -> {WHITE, BLACK}]]

\* box [[BLACK; GRID_WIDTH]; GRID_HEIGHT]
AllBlack(w, h) == [r \in 0 .. h - 1 |-> [c \in 0 .. w - 1 |-> BLACK]]

\* v[0] > 0 of the source: the first byte of a cell (tuples count from 1).
IsLit(v) == v[1] > 0

\* The steps the clock is observed to advance by between two reads.
TickSizes == {MILLIS_PER_UPDATE - 1, MILLIS_PER_UPDATE}

(* ------------------------ the generation pass -------------------------- *)
\* left without the wrap: the first column looks at itself.
left_NoWrap(c, w) == IF c = 0 THEN 0 ELSE c - 1

left(c, w) == (c + w - 1) % w

\* right without the wrap: the last column looks past the end of the row.
right_NoWrap(c, w) == c + 1

right(c, w) == (c + 1) % w
above(r, h) == (r + h - 1) % h
below(r, h) == (r + 1) % h

\* The values the usize arithmetic of the four indices passes through before
\* the remainder is taken, in the order of evaluation.
IndexSteps(r, c, w, h) ==
    <<c + w, c + w - 1, c + 1, r + h, r + h - 1, r + 1>>

\* The coordinates of the eight cells read for (r, c), in the order of the
\* array literal.
NeighborCoords(r, c, w, h) ==
    << <<above(r, h), left(c, w)>>,
       <<above(r, h), c>>,
       <<above(r, h), right(c, w)>>,
       <<r, left(c, w)>>,
       <<r, right(c, w)>>,
       <<below(r, h), left(c, w)>>,
       <<below(r, h), c>>,
       <<below(r, h), right(c, w)>> >>

\* The eight cells read for (r, c), in the order of the array literal.
NeighborCells(g, r, c, w, h) ==
    << g[above(r, h)][left(c, w)],
       g[above(r, h)][c],
       g[above(r, h)][right(c, w)],
       g[r][left(c, w)],
       g[r][right(c, w)],
       g[below(r, h)][left(c, w)],
       g[below(r, h)][c],
       g[below(r, h)][right(c, w)] >>

\* .filter(|v| v[0] > 0).count()
neighbors(g, r, c, w, h) ==
    LET cells == NeighborCells(g, r, c, w, h)
    IN  Cardinality({i \in 1 .. Len(cells) : IsLit(cells[i])})

\* The rule with birth on two as well as on three.
WriteCell_BirthOnTwo(v, n, me) ==
    IF n = 3 \/ n = 2 THEN WHITE ELSE BLACK

\* The rule without its else branch: a cell that is not alive keeps what the
\* slot held before.
WriteCell_KeepStale(v, n, me) ==
    IF n = 3 \/ (n = 2 /\ IsLit(me)) THEN WHITE ELSE v

\* The rule with survival read from the slot being written (the closure
\* variable v) instead of from curr[r][c].
WriteCell_SelfFromSlot(v, n, me) ==
    IF n = 3 \/ (n = 2 /\ IsLit(v)) THEN WHITE ELSE BLACK

\* The write to the slot *v of `next`: v is what the slot held before.
WriteCell(v, n, me) ==
    IF n = 3 \/ (n = 2 /\ IsLit(me)) THEN WHITE ELSE BLACK

\* The closure run on row r of `next`: for (c, v) in row.iter_mut().enumerate()
RowPass(g, row, r, w, h) ==
    [c \in 0 .. w - 1 |-> WriteCell(row[c], neighbors(g, r, c, w, h), g[r][c])]

\* The rate-limit test with the boundary left out.
Due_Strict(t, lu) == t - lu > MILLIS_PER_UPDATE

\* The rate-limit test with the comparison turned round.
Due_Inverted(t, lu) == t - lu <= MILLIS_PER_UPDATE

\* The rate-limit test: Instant::now() - last_update >= MILLIS_PER_UPDATE
Due(t, lu) == t - lu >= MILLIS_PER_UPDATE

(* ------------------------------ drawing -------------------------------- *)
\* The bytes taken column by column instead of row by row.
image_bytes_ColumnMajor(g, w, h) ==
    [i \in 1 .. w * h * COLOR_BYTES |->
        g[((i - 1) \div COLOR_BYTES) % h]
         [(i - 1) \div (h * COLOR_BYTES)]
         [((i - 1) % COLOR_BYTES) + 1]]

\* transmute of &[[[u8; 4]; W]; H] to &[u8; GRID_BYTES]: the bytes in memory
\* order, rows first, then cells of a row, then the four bytes of a cell.
image_bytes(g, w, h) ==
    [i \in 1 .. w * h * COLOR_BYTES |->
        g[(i - 1) \div (w * COLOR_BYTES)]
         [((i - 1) \div COLOR_BYTES) % w]
         [((i - 1) % COLOR_BYTES) + 1]]

(* ---------------------------- the machine ------------------------------ *)
Dims == {d \in (1 .. MaxWidth) \X (1 .. MaxHeight) : d[1] * d[2] <= MaxCells}

\* GameState::new that leaves needs_redraw clear.
Init_NotDirty ==
    /\ \E d \in Dims :
          /\ GRID_WIDTH = d[1]
          /\ GRID_HEIGHT = d[2]
          /\ curr \in Boards(d[1], d[2])
          /\ next = AllBlack(d[1], d[2])
    /\ clock = 0
    /\ last_update = 0
    /\ needs_redraw = FALSE
    /\ pc = "idle"
    /\ done = {}
    /\ now = 0
    /\ image = <<>>
    /\ history = <<curr>>
    /\ frames = <<>>

\* GameState::new, with the clock read as time 0.
Init ==
    /\ \E d \in Dims :
          /\ GRID_WIDTH = d[1]
          /\ GRID_HEIGHT = d[2]
          /\ curr \in Boards(d[1], d[2])
          /\ next = AllBlack(d[1], d[2])
    /\ clock = 0
    /\ last_update = 0
    /\ needs_redraw = TRUE
    /\ pc = "idle"
    /\ done = {}
    /\ now = 0
    /\ image = <<>>
    /\ history = <<curr>>
    /\ frames = <<>>

\* Time passes.  The clock is read only by the rate-limit test and after the
\* join of the pass, so it is advanced only where a read can follow.
Tick(d) ==
    /\ pc = "idle" \/ (pc = "rows" /\ done = Rows)
    /\ clock + d <= MaxClock
    /\ clock' = clock + d
    /\ UNCHANGED <<GRID_WIDTH, GRID_HEIGHT, curr, next, last_update,
                   needs_redraw, pc, done, now, image, history, frames>>

\* update, up to the start of the parallel pass: the early return or the
\* entry into par_iter_mut.
update_begin ==
    /\ pc = "idle"
    /\ IF ~Due(clock, last_update)
       THEN UNCHANGED <<pc, done, now>>
       ELSE /\ Len(history) <= MaxSteps
            /\ now' = clock
            /\ pc' = "rows"
            /\ done' = {}
    /\ UNCHANGED <<GRID_WIDTH, GRID_HEIGHT, curr, next, last_update,
                   needs_redraw, clock, image, history, frames>>

\* A row closure that counts the neighbours in `next`, the buffer being
\* written, instead of in `curr`.
update_row_ReadsNext(r) ==
    /\ pc = "rows"
    /\ r \in Rows \ done
    /\ next' = [next EXCEPT ![r] = RowPass(next, next[r], r, GRID_WIDTH, GRID_HEIGHT)]
    /\ done' = done \cup {r}
    /\ UNCHANGED <<GRID_WIDTH, GRID_HEIGHT, curr, last_update, needs_redraw,
                   clock, pc, now, image, history, frames>>

\* One row closure of the pass; the pool runs the rows in any order.
update_row(r) ==
    /\ pc = "rows"
    /\ r \in Rows \ done
    /\ next' = [next EXCEPT ![r] = RowPass(curr, next[r], r, GRID_WIDTH, GRID_HEIGHT)]
    /\ done' = done \cup {r}
    /\ UNCHANGED <<GRID_WIDTH, GRID_HEIGHT, curr, last_update, needs_redraw,
                   clock, pc, now, image, history, frames>>

\* The swap without the join: it runs although rows are still to be computed.
update_end_NoJoin ==
    /\ pc = "rows"
    /\ curr' = next
    /\ next' = curr
    /\ last_update' = clock
    /\ needs_redraw' = TRUE
    /\ pc' = "idle"
    /\ done' = {}
    /\ history' = Append(history, next)
    /\ UNCHANGED <<GRID_WIDTH, GRID_HEIGHT, clock, now, image, frames>>

\* The end of update without the write of needs_redraw.
update_end_NoFlag ==
    /\ pc = "rows"
    /\ done = Rows
    /\ curr' = next
    /\ next' = curr
    /\ last_update' = clock
    /\ pc' = "idle"
    /\ done' = {}
    /\ history' = Append(history, next)
    /\ UNCHANGED <<GRID_WIDTH, GRID_HEIGHT, needs_redraw, clock, now, image,
                   frames>>

\* After the join: mem::swap, last_update = Instant::now(), needs_redraw.
update_end ==
    /\ pc = "rows"
    /\ done = Rows
    /\ curr' = next
    /\ next' = curr
    /\ last_update' = clock
    /\ needs_redraw' = TRUE
    /\ pc' = "idle"
    /\ done' = {}
    /\ history' = Append(history, next)
    /\ UNCHANGED <<GRID_WIDTH, GRID_HEIGHT, clock, now, image, frames>>

\* draw that never clears the flag.
draw_KeepFlag ==
    /\ pc = "idle"
    /\ IF needs_redraw
       THEN /\ image' = image_bytes(curr, GRID_WIDTH, GRID_HEIGHT)
            /\ frames' = Append(frames, Len(history) - 1)
            /\ UNCHANGED needs_redraw
       ELSE UNCHANGED <<image, needs_redraw, frames>>
    /\ UNCHANGED <<GRID_WIDTH, GRID_HEIGHT, curr, next, last_update, clock,
                   pc, done, now, history>>

\* draw: the buffer is built and presented only when needs_redraw is set.
draw ==
    /\ pc = "idle"
    /\ IF needs_redraw
       THEN /\ image' = image_bytes(curr, GRID_WIDTH, GRID_HEIGHT)
            /\ needs_redraw' = FALSE
            /\ frames' = Append(frames, Len(history) - 1)
       ELSE UNCHANGED <<image, needs_redraw, frames>>
    /\ UNCHANGED <<GRID_WIDTH, GRID_HEIGHT, curr, next, last_update, clock,
                   pc, done, now, history>>

Next ==
    \/ \E d \in TickSizes : Tick(d)
    \/ update_begin
    \/ \E r \in Rows : update_row(r)
    \/ update_end
    \/ draw

Spec == Init /\ [][Next]_vars

(* ------------------- builds with an empty dimension -------------------- *)
\* The builds in which SCALE makes GRID_WIDTH or GRID_HEIGHT zero.
ZeroDims == {d \in (0 .. MaxWidth) \X (0 .. MaxHeight) : d[1] = 0 \/ d[2] = 0}

\* GameState::new in such a build: the same statements, none of which tests
\* the dimensions.
InitZero ==
    /\ \E d \in ZeroDims :
          /\ GRID_WIDTH = d[1]
          /\ GRID_HEIGHT = d[2]
          /\ curr \in Boards(d[1], d[2])
          /\ next = AllBlack(d[1], d[2])
    /\ clock = 0
    /\ last_update = 0
    /\ needs_redraw = TRUE
    /\ pc = "idle"
    /\ done = {}
    /\ now = 0
    /\ image = <<>>
    /\ history = <<curr>>
    /\ frames = <<>>

SpecZero == InitZero /\ [][Next]_vars

(* ------------------------ a build with a blinker ----------------------- *)
\* The cells of the grid g that are alive.
Lit(g) == {p \in Rows \X Cols : IsLit(g[p[1]][p[2]])}

\* Builds large enough to hold the cells (5,4), (5,5), (5,6) and their
\* neighbours, one square and one not.
BlinkerDims == {<<BlinkerSize, BlinkerSize>>, <<BlinkerSize + 1, BlinkerSize>>}

\* GameState::new when the coin flips light exactly (5,4), (5,5) and (5,6).
InitBlinker ==
    /\ \E d \in BlinkerDims :
          /\ GRID_WIDTH = d[1]
          /\ GRID_HEIGHT = d[2]
          /\ curr = [r \in 0 .. d[2] - 1 |-> [c \in 0 .. d[1] - 1 |->
                        IF r = 5 /\ c \in {4, 5, 6} THEN WHITE ELSE BLACK]]
          /\ next = AllBlack(d[1], d[2])
    /\ clock = 0
    /\ last_update = 0
    /\ needs_redraw = TRUE
    /\ pc = "idle"
    /\ done = {}
    /\ now = 0
    /\ image = <<>>
    /\ history = <<curr>>
    /\ frames = <<>>

SpecBlinker == InitBlinker /\ [][Next]_vars

(* --------------------------- the frame loop ---------------------------- *)
\* event::run drives the handlers in turn: update, then draw, once per frame.
\* Here pc is "update" before the call of update, "rows" inside its pass and
\* "draw" before the call of draw.
InitLoop ==
    /\ \E d \in Dims :
          /\ GRID_WIDTH = d[1]
          /\ GRID_HEIGHT = d[2]
          /\ curr \in Boards(d[1], d[2])
          /\ next = AllBlack(d[1], d[2])
    /\ clock = 0
    /\ last_update = 0
    /\ needs_redraw = TRUE
    /\ pc = "update"
    /\ done = {}
    /\ now = 0
    /\ image = <<>>
    /\ history = <<curr>>
    /\ frames = <<>>

frame_Tick(d) ==
    /\ pc \in {"update", "draw"} \/ (pc = "rows" /\ done = Rows)
    /\ clock + d <= MaxClock
    /\ clock' = clock + d
    /\ UNCHANGED <<GRID_WIDTH, GRID_HEIGHT, curr, next, last_update,
                   needs_redraw, pc, done, now, image, history, frames>>

frame_update_begin ==
    /\ pc = "update"
    /\ IF ~Due(clock, last_update)
       THEN /\ pc' = "draw"
            /\ UNCHANGED <<done, now>>
       ELSE /\ Len(history) <= MaxSteps
            /\ now' = clock
            /\ pc' = "rows"
            /\ done' = {}
    /\ UNCHANGED <<GRID_WIDTH, GRID_HEIGHT, curr, next, last_update,
                   needs_redraw, clock, image, history, frames>>

\* The end of update without the write of needs_redraw.
frame_update_end_NoFlag ==
    /\ pc = "rows"
    /\ done = Rows
    /\ curr' = next
    /\ next' = curr
    /\ last_update' = clock
    /\ pc' = "draw"
    /\ done' = {}
    /\ history' = Append(history, next)
    /\ UNCHANGED <<GRID_WIDTH, GRID_HEIGHT, needs_redraw, clock, now, image,
                   frames>>

frame_update_end ==
    /\ pc = "rows"
    /\ done = Rows
    /\ curr' = next
    /\ next' = curr
    /\ last_update' = clock
    /\ needs_redraw' = TRUE
    /\ pc' = "draw"
    /\ done' = {}
    /\ history' = Append(history, next)
    /\ UNCHANGED <<GRID_WIDTH, GRID_HEIGHT, clock, now, image, frames>>

frame_draw ==
    /\ pc = "draw"
    /\ IF needs_redraw
       THEN /\ image' = image_bytes(curr, GRID_WIDTH, GRID_HEIGHT)
            /\ needs_redraw' = FALSE
            /\ frames' = Append(frames, Len(history) - 1)
       ELSE UNCHANGED <<image, needs_redraw, frames>>
    /\ pc' = "update"
    /\ UNCHANGED <<GRID_WIDTH, GRID_HEIGHT, curr, next, last_update, clock,
                   done, now, history>>

NextLoop ==
    \/ \E d \in TickSizes : frame_Tick(d)
    \/ frame_update_begin
    \/ \E r \in Rows : update_row(r)
    \/ frame_update_end
    \/ frame_draw

SpecLoop == InitLoop /\ [][NextLoop]_vars

(* ----------------------- reference definitions ------------------------- *)
\* The Game of Life on a torus, stated with signed offsets: the cell reached
\* from x by the offset dx on a ring of n cells is x + dx modulo n.
Offsets == {o \in (-1 .. 1) \X (-1 .. 1) : o # <<0, 0>>}

Ring(x, dx, n) == (x + dx) % n

LifeCount(g, r, c) ==
    Cardinality({o \in Offsets :
        IsLit(g[Ring(r, o[1], GRID_HEIGHT)][Ring(c, o[2], GRID_WIDTH)])})

LifeAlive(g, r, c) ==
    LET n == LifeCount(g, r, c)
    IN  n = 3 \/ (n = 2 /\ IsLit(g[r][c]))

Life(g) == [r \in Rows |-> [c \in Cols |->
               IF LifeAlive(g, r, c) THEN WHITE ELSE BLACK]]

\* The transition of the machine that performs a generation transition.
Stepped == pc = "rows" /\ pc' = "idle"

(* ------------------------------- claims -------------------------------- *)

\* C1: after a performed generation transition, cell (r,c) of the new `curr`
\* is alive exactly when, in the pre-step `curr`, it had exactly 3 alive
\* cells among its eight toroidal neighbours, or exactly 2 and was itself
\* alive; otherwise it is dead.
C1_RuleOfLife ==
    [][Stepped =>
        \A r \in Rows : \A c \in Cols :
            /\ IsLit(curr'[r][c]) <=> LifeAlive(curr, r, c)
            /\ ~LifeAlive(curr, r, c) => curr'[r][c] = BLACK]_vars

\* C1 witness: a 3x3 build has stepped twice; in the first step a dead cell
\* was born on 3 and a live cell survived on 2, in the second a live cell
\* with more than 3 alive neighbours died.
C1_Witness ==
    /\ GRID_WIDTH = 3 /\ GRID_HEIGHT = 3
    /\ Len(history) = 3
    /\ curr = history[3]
    /\ \E r \in Rows, c \in Cols :
          ~IsLit(history[1][r][c]) /\ LifeCount(history[1], r, c) = 3 /\ IsLit(history[2][r][c])
    /\ \E r \in Rows, c \in Cols :
          IsLit(history[1][r][c]) /\ LifeCount(history[1], r, c) = 2 /\ IsLit(history[2][r][c])
    /\ \E r \in Rows, c \in Cols :
          IsLit(history[2][r][c]) /\ LifeCount(history[2], r, c) > 3 /\ ~IsLit(curr[r][c])

\* The grid g with cell (r, c) set to v.
WithCell(g, r, c, v) == [g EXCEPT ![r][c] = v]

\* The count made for (r, c) includes the cell (r2, c2): lighting that cell
\* raises the count.
Counts(g, r, c, r2, c2) ==
    neighbors(WithCell(g, r2, c2, WHITE), r, c, GRID_WIDTH, GRID_HEIGHT)
        > neighbors(WithCell(g, r2, c2, BLACK), r, c, GRID_WIDTH, GRID_HEIGHT)

\* C2: the count wraps around both axes: on every grid a pass begins on, (0,0)
\* counts (H-1, W-1) and (0, W-1) counts (0,0); in every row the last column
\* and the first count each other, in every column the last row and the first.
C2_ToroidalWrap ==
    (pc = "rows" /\ done = {}) =>
        /\ Counts(curr, 0, 0, GRID_HEIGHT - 1, GRID_WIDTH - 1)
        /\ Counts(curr, 0, GRID_WIDTH - 1, 0, 0)
        /\ \A r \in Rows : /\ Counts(curr, r, GRID_WIDTH - 1, r, 0)
                           /\ Counts(curr, r, 0, r, GRID_WIDTH - 1)
        /\ \A c \in Cols : /\ Counts(curr, GRID_HEIGHT - 1, c, 0, c)
                           /\ Counts(curr, 0, c, GRID_HEIGHT - 1, c)

\* C2 witness: on a 3x3 build a step has given birth to (0,0) from three
\* alive cells that are its neighbours only through the wrap: (2,2), (0,2)
\* and (2,0).
C2_Witness ==
    /\ GRID_WIDTH = 3 /\ GRID_HEIGHT = 3
    /\ Len(history) = 2
    /\ \A r \in Rows, c \in Cols :
          IsLit(history[1][r][c]) <=> <<r, c>> \in {<<2, 2>>, <<0, 2>>, <<2, 0>>}
    /\ IsLit(curr[0][0])

\* C3: a pass is entered only when at least MILLIS_PER_UPDATE has passed
\* since the call that performed the previous step read the clock, and a
\* transition that performs no step leaves curr, next and last_update as they
\* were and does not set needs_redraw.
C3_RateLimit ==
    [][/\ (pc = "idle" /\ pc' = "rows" /\ Len(history) > 1)
             => clock - now >= MILLIS_PER_UPDATE
       /\ (pc = "idle" /\ pc' = "idle")
             => /\ curr' = curr
                /\ next' = next
                /\ last_update' = last_update
                /\ needs_redraw' => needs_redraw]_vars

\* C3 witness: one step has been performed and drawn, the clock has moved on
\* by less than the interval since that call read it, and update, called
\* here, has returned early.
C3_Witness ==
    /\ Len(history) = 2
    /\ pc = "idle"
    /\ ~needs_redraw
    /\ clock > last_update
    /\ clock - now < MILLIS_PER_UPDATE
    /\ ~Due(clock, last_update)

\* C4: every buffer is produced after a different number of performed steps
\* than the buffer before it, so between two buffers a step was performed,
\* and there are at most as many buffers as steps plus one.
C4_RedrawOncePerStep ==
    /\ \A i \in 1 .. Len(frames) - 1 : frames[i] < frames[i + 1]
    /\ Len(frames) <= Len(history)

\* C4 witness: the first generation and the second have each been drawn once
\* and the flag is clear, so further calls of draw produce nothing.
C4_Witness ==
    /\ frames = <<0, 1>>
    /\ ~needs_redraw
    /\ pc = "idle"

\* C5: a produced buffer has W*H*4 bytes, and the four bytes at offset
\* (r*W + c)*4 are WHITE where curr[r][c] is alive and BLACK where it is dead.
C5_PixelEncoding ==
    [][frames' # frames =>
        /\ Len(image') = GRID_WIDTH * GRID_HEIGHT * 4
        /\ \A r \in Rows : \A c \in Cols :
              LET off == (r * GRID_WIDTH + c) * 4
              IN  <<image'[off + 1], image'[off + 2], image'[off + 3], image'[off + 4]>>
                     = IF IsLit(curr[r][c]) THEN <<255, 255, 255, 255>>
                                            ELSE <<0, 0, 0, 255>>]_vars

\* C5 witness: a buffer has been produced of a 3x2 grid that is neither all
\* alive nor all dead and differs from its transpose-like reading.
C5_Witness ==
    /\ GRID_WIDTH = 3 /\ GRID_HEIGHT = 2
    /\ Len(frames) = 1
    /\ IsLit(curr[0][1]) /\ ~IsLit(curr[1][0]) /\ ~IsLit(curr[0][0])
    /\ Len(image) = 24
    /\ image[5] = 255 /\ image[13] = 0

\* The grid that the pass writes from the grid g into a scratch buffer that
\* holds only dead cells, as `next` does after construction.
FreshPass(g) ==
    [r \in Rows |->
        RowPass(g, AllBlack(GRID_WIDTH, GRID_HEIGHT)[r], r, GRID_WIDTH, GRID_HEIGHT)]

\* C6: the result of a step depends on `curr` alone.  The grid a pass has
\* completed in `next`, whatever `next` held before, in whatever order the
\* rows ran and whatever the timestamps and the flag, is the grid the same
\* pass writes from the same `curr` into a fresh scratch buffer; and whenever
\* two steps of a run started from equal `curr` grids they produced equal
\* grids.
C6_Deterministic ==
    /\ (pc = "rows" /\ done = Rows) => next = FreshPass(curr)
    /\ \A i \in 1 .. Len(history) - 1 : \A j \in 1 .. Len(history) - 1 :
          history[i] = history[j] => history[i + 1] = history[j + 1]

\* C6 witness: the second and the third step started from the same grid, the
\* second with a scratch buffer holding another grid than the third, and at
\* other times.
C6_Witness ==
    /\ Len(history) = 4
    /\ history[2] = history[3]
    /\ history[1] # history[2]
    /\ pc = "idle"
    /\ now > MILLIS_PER_UPDATE

\* C7: after N performed steps `curr` is the Game-of-Life rule applied N
\* times to the initial grid (each generation the run went through is the
\* rule applied to the one before it, and `curr` is the last); the grid
\* completed in `next` by a pass is the next generation of `curr`, and after
\* the swap `next` holds the generation before `curr`.
C7_SwapIntegrity ==
    /\ history[Len(history)] = curr
    /\ pc = "idle" =>
          /\ \A k \in 1 .. Len(history) - 1 : history[k + 1] = Life(history[k])
          /\ Len(history) > 1 => next = history[Len(history) - 1]
    /\ (pc = "rows" /\ done = Rows) => next = Life(curr)

\* C7 witness: three steps have been performed; the first three generations
\* differ from each other, so the scratch buffer of the second step held a
\* grid that differs both from the grid it read and from the one it wrote.
C7_Witness ==
    /\ Len(history) = 4
    /\ history[1] # history[2]
    /\ history[2] # history[3]
    /\ history[1] # history[3]
    /\ curr = history[4]
    /\ next = history[3]
    /\ pc = "idle"

\* C8: inside the pass `curr` does not change, each row closure changes only
\* its own row of `next` and writes there the next generation of that row,
\* whichever rows have been computed before it.
C8_RowsIndependent ==
    [][(pc = "rows" /\ pc' = "rows") =>
        /\ curr' = curr
        /\ done' # done =>
              \E r \in Rows \ done :
                 /\ done' = done \cup {r}
                 /\ next'[r] = Life(curr)[r]
                 /\ \A q \in Rows \ {r} : next'[q] = next[q]]_vars

\* C8 witness: in a pass over three rows, the last row has been computed
\* before the first two and its content has changed.
C8_Witness ==
    /\ GRID_HEIGHT = 3
    /\ pc = "rows"
    /\ done = {2}
    /\ Len(history) = 2
    /\ next[2] # history[1][2]
    /\ next[0] = history[1][0]
    /\ next[0] # Life(curr)[0]

\* C9: `curr` changes only by the swap, and then to the complete next
\* generation; every buffer produced encodes one complete generation; a
\* call that performs no step changes no cell of either grid.
C9_AllOrNothing ==
    [][/\ curr' # curr => (Stepped /\ curr' = Life(curr))
       /\ frames' # frames =>
             /\ image' = image_bytes(history[Len(history)], GRID_WIDTH, GRID_HEIGHT)
             /\ Len(history) > 1 =>
                   history[Len(history)] = Life(history[Len(history) - 1])
       /\ (pc = "idle" /\ pc' = "idle") => (curr' = curr /\ next' = next)]_vars

\* C9 witness: the first two generations differ and each has been drawn, the
\* second after the swap that completed it.
C9_Witness ==
    /\ Len(history) = 2
    /\ frames = <<0, 1>>
    /\ history[1] # history[2]
    /\ \E r \in Rows, c \in Cols : history[1][r][c] = history[2][r][c]
    /\ image = image_bytes(history[2], GRID_WIDTH, GRID_HEIGHT)

\* C10: after a performed step last_update holds the timestamp that the
\* rate-limit test of that call compared.
C10_SameTimestamp ==
    (pc = "idle" /\ Len(history) > 1) => last_update = now

TwoValued(v) ==
    /\ v = <<255, 255, 255, 255>> \/ v = <<0, 0, 0, 255>>
    /\ v[1] > 0 <=> v = <<255, 255, 255, 255>>
    /\ v[4] = 255

\* C12: in every reachable state, inside the pass too, every cell of `curr`
\* and of `next` is WHITE [255,255,255,255] or BLACK [0,0,0,255].
C12_TwoColours ==
    \A r \in Rows : \A c \in Cols : TwoValued(curr[r][c]) /\ TwoValued(next[r][c])

\* C12 witness: inside the second pass of a 3x3 build, with one row written,
\* `curr` and `next` each hold cells of both colours.
C12_Witness ==
    /\ GRID_WIDTH = 3 /\ GRID_HEIGHT = 3
    /\ pc = "rows"
    /\ Cardinality(done) = 1
    /\ Len(history) = 2
    /\ \E r \in Rows, c \in Cols : curr[r][c] = WHITE
    /\ \E r \in Rows, c \in Cols : curr[r][c] = BLACK
    /\ \E r \in Rows, c \in Cols : next[r][c] = WHITE
    /\ \E r \in Rows, c \in Cols : next[r][c] = BLACK

\* C13: from the grid whose alive cells are (5,4), (5,5), (5,6), one step
\* gives the grid whose alive cells are exactly (4,5), (5,5), (6,5), and a
\* second step gives back the first grid.
C13_Blinker ==
    /\ Lit(history[1]) = {<<5, 4>>, <<5, 5>>, <<5, 6>>}
    /\ Len(history) >= 2 => Lit(history[2]) = {<<4, 5>>, <<5, 5>>, <<6, 5>>}
    /\ Len(history) >= 3 => history[3] = history[1]
    /\ curr = history[Len(history)]

\* C13 witness: two steps have been performed; `curr` holds the horizontal
\* triple again and `next` the vertical one.
C13_Witness ==
    /\ Len(history) = 3
    /\ pc = "idle"
    /\ Lit(curr) = {<<5, 4>>, <<5, 5>>, <<5, 6>>}
    /\ Lit(next) = {<<4, 5>>, <<5, 5>>, <<6, 5>>}

\* C14: until the first pass begins `next` holds only dead cells and
\* last_update the construction time 0; until the first buffer or the first
\* step needs_redraw is set; a buffer produced before any step encodes the
\* initial generation; and no pass begins before MILLIS_PER_UPDATE has
\* passed since construction.
C14_AfterNew ==
    /\ (Len(history) = 1 /\ pc = "idle")
          => /\ \A r \in Rows : \A c \in Cols : ~IsLit(next[r][c])
             /\ last_update = 0
    /\ (Len(history) = 1 /\ frames = <<>>) => needs_redraw
    /\ (Len(history) = 1 /\ frames # <<>>)
          => /\ frames = <<0>>
             /\ image = image_bytes(history[1], GRID_WIDTH, GRID_HEIGHT)
    /\ (pc = "rows" \/ Len(history) > 1) => clock >= MILLIS_PER_UPDATE

\* C14 witness: draw has been called before any step and has produced the
\* buffer of an initial generation with alive and dead cells, less than an
\* interval after construction.
C14_Witness ==
    /\ Len(history) = 1
    /\ frames = <<0>>
    /\ pc = "idle"
    /\ clock < MILLIS_PER_UPDATE
    /\ clock > 0
    /\ ~needs_redraw
    /\ \E r \in Rows, c \in Cols : IsLit(curr[r][c])
    /\ \E r \in Rows, c \in Cols : ~IsLit(curr[r][c])

\* A call of update that passes the rate-limit test and enters the pass.
StepAdmitted == update_begin /\ pc' = "rows"

\* C15: the interval is 1000 / 24 truncated, 41 ms; a call of update enters
\* the pass exactly when at least 41 ms have passed since last_update: at 41
\* it does, at 40 it does not.  (Stated for the calls that the bound on the
\* number of steps leaves to the run.)
C15_IntervalInclusive ==
    /\ MILLIS_PER_UPDATE = 41
    /\ (pc = "idle" /\ Len(history) <= MaxSteps)
          => (ENABLED StepAdmitted <=> clock - last_update >= 41)
    /\ pc = "rows" => now - last_update >= 41

\* C15 witness: a second step has been admitted exactly 41 ms after
\* last_update was set by the first.
C15_Witness ==
    /\ pc = "rows"
    /\ Len(history) = 2
    /\ last_update > 0
    /\ now - last_update = 41

\* C16: for every cell of every build with W > 0 and H > 0, left and right
\* lie in 0..W-1, above and below in 0..H-1, and no value the unsigned
\* arithmetic passes through is negative.
C16_IndicesInBounds ==
    (GRID_WIDTH > 0 /\ GRID_HEIGHT > 0) =>
        \A r \in Rows : \A c \in Cols :
            /\ left(c, GRID_WIDTH) \in 0 .. GRID_WIDTH - 1
            /\ right(c, GRID_WIDTH) \in 0 .. GRID_WIDTH - 1
            /\ above(r, GRID_HEIGHT) \in 0 .. GRID_HEIGHT - 1
            /\ below(r, GRID_HEIGHT) \in 0 .. GRID_HEIGHT - 1
            /\ LET steps == IndexSteps(r, c, GRID_WIDTH, GRID_HEIGHT)
               IN  \A i \in 1 .. Len(steps) : steps[i] >= 0

\* C16 witness: a pass has run over every row of a 3x2 build, whose corner
\* cells need the wrap on both axes.
C16_Witness ==
    /\ GRID_WIDTH = 3 /\ GRID_HEIGHT = 2
    /\ pc = "rows"
    /\ done = Rows
    /\ left(0, GRID_WIDTH) = 2 /\ right(2, GRID_WIDTH) = 0
    /\ above(0, GRID_HEIGHT) = 1 /\ below(1, GRID_HEIGHT) = 0

\* The generations for which a buffer has been produced.
Rendered == {frames[i] : i \in 1 .. Len(frames)}

\* C17: in the frame loop no generation is drawn twice, every generation a
\* step computed has been drawn by the time the next pass begins, and none
\* but the latest can still be waiting for its draw.
C17_EveryStepDrawnOnce ==
    /\ \A i \in 1 .. Len(frames) - 1 : frames[i] < frames[i + 1]
    /\ \A k \in 1 .. Len(history) - 2 : k \in Rendered
    /\ (pc # "draw" /\ Len(history) > 1) => (Len(history) - 1) \in Rendered

\* C17 witness: two steps through different generations have been performed
\* and each generation has been drawn once, in order.
C17_Witness ==
    /\ frames = <<0, 1, 2>>
    /\ Len(history) = 3
    /\ pc = "update"
    /\ history[1] # history[2]
    /\ history[2] # history[3]

\* C18: whenever needs_redraw is clear, a buffer has been produced and the
\* last one produced encodes the present `curr`.
C18_CleanMeansCurrent ==
    ~needs_redraw =>
        /\ frames # <<>>
        /\ image = image_bytes(curr, GRID_WIDTH, GRID_HEIGHT)

\* C18 witness: two steps have been performed, the generation between was
\* never drawn, the flag is clear and the buffer is that of the latest
\* generation, which differs from the one drawn before.
C18_Witness ==
    /\ ~needs_redraw
    /\ pc = "idle"
    /\ frames = <<0, 2>>
    /\ history[3] # history[1]
    /\ image # image_bytes(history[1], GRID_WIDTH, GRID_HEIGHT)

\* The state that shows the converse of C18 to fail: the flag is set by a
\* step although the buffer last produced still encodes `curr`.
C18_DirtyButCurrent ==
    /\ needs_redraw
    /\ Len(history) = 2
    /\ frames = <<0>>
    /\ image = image_bytes(curr, GRID_WIDTH, GRID_HEIGHT)

\* The different cells among the eight read for (r, c).
NeighborSet(r, c) ==
    LET cs == NeighborCoords(r, c, GRID_WIDTH, GRID_HEIGHT)
    IN  {cs[i] : i \in 1 .. Len(cs)}

\* C19: in every pass that begins, the eight cells read for (r, c) are the cells at the
\* eight coordinates; when W >= 3 and H >= 3 these are eight different cells,
\* none of them (r, c), and the count lies in 0..8; when W < 3 or H < 3 fewer
\* than eight different cells are read, so one is counted more than once, and
\* when W = 1 or H = 1 the cell (r, c) is among them.
C19_DistinctNeighbours ==
    (pc = "rows" /\ done = {}) =>
        \A r \in Rows : \A c \in Cols :
            LET cs == NeighborCoords(r, c, GRID_WIDTH, GRID_HEIGHT)
                ns == NeighborSet(r, c)
            IN  /\ NeighborCells(curr, r, c, GRID_WIDTH, GRID_HEIGHT)
                      = [i \in 1 .. 8 |-> curr[cs[i][1]][cs[i][2]]]
                /\ neighbors(curr, r, c, GRID_WIDTH, GRID_HEIGHT) \in 0 .. 8
                /\ (GRID_WIDTH >= 3 /\ GRID_HEIGHT >= 3)
                      => (Cardinality(ns) = 8 /\ <<r, c>> \notin ns)
                /\ (GRID_WIDTH < 3 \/ GRID_HEIGHT < 3) => Cardinality(ns) < 8
                /\ (GRID_WIDTH = 1 \/ GRID_HEIGHT = 1) => <<r, c>> \in ns

\* C19 witness: a step of a 3x3 build has counted eight alive neighbours for
\* a cell, and so eight different cells.
C19_Witness ==
    /\ GRID_WIDTH = 3 /\ GRID_HEIGHT = 3
    /\ Len(history) = 2
    /\ \E r \in Rows, c \in Cols :
          /\ neighbors(history[1], r, c, GRID_WIDTH, GRID_HEIGHT) = 8
          /\ ~IsLit(history[1][r][c])
          /\ ~IsLit(curr[r][c])

\* The state that shows the repeated count of a narrow build: in a build of
\* width 2 a step has counted a single alive cell twice, as left and as right
\* neighbour, and kept its neighbour alive on that count.
C19_CountedTwice ==
    /\ GRID_WIDTH = 2 /\ GRID_HEIGHT = 3
    /\ Len(history) = 2
    /\ Cardinality(Lit(history[1])) = 2
    /\ IsLit(history[1][1][0]) /\ IsLit(history[1][1][1])
    /\ neighbors(history[1], 1, 0, GRID_WIDTH, GRID_HEIGHT) = 2
    /\ IsLit(curr[1][0])

====
